---- MODULE Spec2Model ----
(***************************************************************************)
(* The OAuth2 token lifecycle of wfh (src/main.go): getClient,             *)
(* getTokenFromWeb with its callback handler and listener goroutine,       *)
(* tokenFromFile and saveToken.  The token file outlives the process, so   *)
(* the model runs the program several times over the same file.            *)
(***************************************************************************)
EXTENDS Integers, Sequences, FiniteSets, TLC

\* ------------------------------------------------------------- bounds
MaxReqs == 2          \* callback requests the listener serves in one run
MaxRuns == 2          \* invocations of the program over the same token file

\* srv.Shutdown gets context.WithTimeout(..., time.Second): the deadline, in ticks
ShutdownDeadline == 1

\* ------------------------------------------------------------- inputs
\* the state value put into the authorization URL
StateToken == "state-token"
\* `state` query parameters a callback request may carry
States == {StateToken, "WRONG"}
\* `code` query parameters a callback request may carry (Get gives "" when absent)
Codes == {"XYZ", ""}

\* ------------------------------------------------------------- tokens
\* time.Time: the wall-clock instant and whether a monotonic reading is attached;
\* wall 0 is the zero Time
ZeroTime == [wall |-> 0, mono |-> FALSE]
NowPlus == [wall |-> 1, mono |-> TRUE]

\* the nil *oauth2.Token
NilToken == [AccessToken |-> "", TokenType |-> "", RefreshToken |-> "",
             Expiry |-> ZeroTime, raw |-> "nil"]

\* tokens config.Exchange can return: Expiry is time.Now()+expires_in (or the zero
\* Time when the endpoint gives no expires_in), raw holds the endpoint's response
ExchangeTokens ==
    [AccessToken : {"abc"}, TokenType : {"Bearer"}, RefreshToken : {"", "rt"},
     Expiry : {ZeroTime, NowPlus}, raw : {"resp"}]

\* time.Time's MarshalJSON: the RFC 3339 text of the wall clock instant; the
\* monotonic reading is not written
FormatTime(t) == IF t.wall = 0 THEN "0001-01-01T00:00:00Z" ELSE "2020-01-01T00:00:00Z"

\* time.Time's UnmarshalJSON
ParseTime(s) == IF s = "0001-01-01T00:00:00Z" THEN ZeroTime ELSE [wall |-> 1, mono |-> FALSE]

\* json.NewEncoder(f).Encode(token): the JSON object of an oauth2.Token.
\* token_type and refresh_token are omitempty; raw is unexported and not written.
Encode(t) ==
    ("access_token" :> t.AccessToken)
    @@ (IF t.TokenType # "" THEN "token_type" :> t.TokenType ELSE <<>>)
    @@ (IF t.RefreshToken # "" THEN "refresh_token" :> t.RefreshToken ELSE <<>>)
    @@ ("expiry" :> FormatTime(t.Expiry))

\* json.NewDecoder(f).Decode(tok) into a fresh &oauth2.Token{}: a key that is
\* absent leaves the field at its zero value
Decode(o) ==
    [AccessToken  |-> IF "access_token" \in DOMAIN o THEN o["access_token"] ELSE "",
     TokenType    |-> IF "token_type" \in DOMAIN o THEN o["token_type"] ELSE "",
     RefreshToken |-> IF "refresh_token" \in DOMAIN o THEN o["refresh_token"] ELSE "",
     Expiry       |-> IF "expiry" \in DOMAIN o THEN ParseTime(o["expiry"]) ELSE ZeroTime,
     raw          |-> "none"]

\* ------------------------------------------------------------- token file
\* The file is absent, or a sequence of items: JSON values or bytes that are no JSON.
Absent == [exists |-> FALSE, items |-> <<>>]
Json(o) == [kind |-> "json", obj |-> o]
Garbage == [kind |-> "garbage", obj |-> <<>>]
FileOf(items) == [exists |-> TRUE, items |-> items]

\* Scenario-B style record: every key written, refresh_token empty
ExplicitEmptyRefresh ==
    ("access_token" :> "abc") @@ ("refresh_token" :> "") @@ ("token_type" :> "Bearer")
    @@ ("expiry" :> "2020-01-01T00:00:00Z")

\* what the token file can hold when the program starts
InitialFiles ==
    {Absent, FileOf(<<>>), FileOf(<<Garbage>>), FileOf(<<Json(ExplicitEmptyRefresh)>>),
     FileOf(<<Json(Encode([AccessToken |-> "old", TokenType |-> "Bearer",
                           RefreshToken |-> "rt", Expiry |-> NowPlus, raw |-> "resp"]))>>)}

VARIABLES
    run,              \* number of this invocation of the program
    pc,               \* position of the main flow (getClient / getTokenFromWeb)
    file,             \* the token file at tokenPath
    fileAtStart,      \* the token file as this invocation found it
    tok,              \* getClient's tok
    loaded,           \* outcome of tokenFromFile: "none", "ok", "openerr"
    listener,         \* the listener goroutine and srv's socket
    reqs,             \* the callback requests served, each with its handler's position
    authCode,         \* getTokenFromWeb's authCode
    recvFrom,         \* index in reqs of the request whose hand-off was received, 0 if none
    received,         \* number of values the main flow took from codeCh
    urlState,         \* state parameter of the printed authorization URL, "" if none
    shutdownCalled,   \* srv.Shutdown has been called
    timer,            \* ticks since srv.Shutdown was called
    exchanged,        \* the codes passed to config.Exchange, in order
    exchTok,          \* the token config.Exchange returned
    saveCalls,        \* number of calls of saveToken
    lastSaved,        \* the token of the last saveToken that returned nil
    savedOver,        \* the token file the last saveToken that returned nil wrote over
    log               \* what was logged (log.Printf / log.Println / log.Fatalf)

vars == <<run, pc, file, fileAtStart, tok, loaded, listener, reqs, authCode, recvFrom,
          received, urlState, shutdownCalled, timer, exchanged, exchTok, saveCalls,
          lastSaved, savedOver, log>>

\* everything of one process: reset when the program is started again
procVars == <<pc, tok, loaded, listener, reqs, authCode, recvFrom, received, urlState,
              shutdownCalled, timer, exchanged, exchTok, saveCalls, log>>

ProcInit ==
    /\ pc = "load"
    /\ tok = NilToken
    /\ loaded = "none"
    /\ listener = "none"
    /\ reqs = <<>>
    /\ authCode = ""
    /\ recvFrom = 0
    /\ received = 0
    /\ urlState = ""
    /\ shutdownCalled = FALSE
    /\ timer = 0
    /\ exchanged = <<>>
    /\ exchTok = NilToken
    /\ saveCalls = 0
    /\ log = {}

Init ==
    /\ run = 1
    /\ file \in InitialFiles
    /\ fileAtStart = file
    /\ lastSaved = NilToken
    /\ savedOver = Absent
    /\ ProcInit

\* the process is running (log.Fatalf ends it, every goroutine included)
Alive == pc # "fatal"

\* ------------------------------------------------------------- TokenStore
\* tokenFromFile: os.Open fails when the file is absent or on an I/O error (ioerr)
\* and the error is returned; a Decode error is log.Fatalf; else the token.
TokenFromFile(f, ioerr) ==
    IF ~f.exists \/ ioerr THEN [out |-> "err", tok |-> NilToken]
    ELSE IF f.items = <<>> \/ Head(f.items).kind # "json"
         THEN [out |-> "fatal", tok |-> NilToken]
         ELSE [out |-> "ok", tok |-> Decode(Head(f.items).obj)]

\* what each step of saveToken can do
SaveOutcomes == {"ok", "create", "encode", "write", "close"}

\* a saveToken that opens the file for appending instead of truncating it
SaveTokenAppend(f, t, outcome) ==
    CASE outcome = "create" -> [file |-> f, err |-> TRUE]
      [] outcome = "encode" -> [file |-> FileOf(f.items), err |-> TRUE]
      [] outcome = "write"  -> [file |-> FileOf(Append(f.items, Garbage)), err |-> TRUE]
      [] outcome = "close"  -> [file |-> FileOf(Append(f.items, Json(Encode(t)))), err |-> TRUE]
      [] OTHER              -> [file |-> FileOf(Append(f.items, Json(Encode(t)))), err |-> FALSE]

\* saveToken: os.Create truncates or creates the file, Encode writes the token's
\* JSON, Close; the first error is returned.  "encode": nothing was written,
\* "write": the write broke off part-way.
SaveToken(f, t, outcome) ==
    CASE outcome = "create" -> [file |-> f, err |-> TRUE]
      [] outcome = "encode" -> [file |-> FileOf(<<>>), err |-> TRUE]
      [] outcome = "write"  -> [file |-> FileOf(<<Garbage>>), err |-> TRUE]
      [] outcome = "close"  -> [file |-> FileOf(<<Json(Encode(t))>>), err |-> TRUE]
      [] OTHER              -> [file |-> FileOf(<<Json(Encode(t))>>), err |-> FALSE]

\* ------------------------------------------------------------- getClient
\* a getClient whose error test is inverted
GetClientLoadInverted ==
    /\ pc = "load"
    /\ \E ioerr \in BOOLEAN :
         LET r == TokenFromFile(file, ioerr) IN
           /\ r.out # "fatal"
           /\ tok' = r.tok
           /\ loaded' = IF r.out = "ok" THEN "ok" ELSE "openerr"
           /\ pc' = IF r.out = "ok" THEN "web" ELSE "client"
           /\ log' = log
    /\ UNCHANGED <<run, file, fileAtStart, listener, reqs, authCode, recvFrom, received,
                   urlState, shutdownCalled, timer, exchanged, exchTok, saveCalls,
                   lastSaved, savedOver>>

\* a getClient that removes a token file it cannot decode and goes to the web flow
GetClientLoadRemovesBadFile ==
    /\ pc = "load"
    /\ \E ioerr \in BOOLEAN :
         LET r == TokenFromFile(file, ioerr) IN
           /\ tok' = r.tok
           /\ loaded' = IF r.out = "ok" THEN "ok" ELSE "openerr"
           /\ pc' = IF r.out = "ok" THEN "client" ELSE "web"
           /\ file' = IF r.out = "fatal" THEN Absent ELSE file
    /\ UNCHANGED <<run, fileAtStart, listener, reqs, authCode, recvFrom, received,
                   urlState, shutdownCalled, timer, exchanged, exchTok, saveCalls,
                   lastSaved, savedOver, log>>

\* getClient, lines 33-36: tok, err := tokenFromFile(tokenPath); on err the web flow
GetClientLoad ==
    /\ pc = "load"
    /\ \E ioerr \in BOOLEAN :
         LET r == TokenFromFile(file, ioerr) IN
           \/ /\ r.out = "ok"
              /\ tok' = r.tok
              /\ loaded' = "ok"
              /\ pc' = "client"
              /\ log' = log
           \/ /\ r.out = "err"
              /\ tok' = tok
              /\ loaded' = "openerr"
              /\ pc' = "web"
              /\ log' = log
           \/ /\ r.out = "fatal"
              /\ tok' = tok
              /\ loaded' = loaded
              /\ pc' = "fatal"
              /\ log' = log \cup {"Unable to decode token"}
    /\ UNCHANGED <<run, file, fileAtStart, listener, reqs, authCode, recvFrom, received,
                   urlState, shutdownCalled, timer, exchanged, exchTok, saveCalls,
                   lastSaved, savedOver>>

\* getClient, lines 38-44: config.Client and calendar.NewService; its error is fatal
GetClientService ==
    /\ pc = "client"
    /\ \E ok \in BOOLEAN :
         IF ok THEN pc' = "authorized" /\ log' = log
         ELSE pc' = "fatal" /\ log' = log \cup {"Unable to retrieve Calendar client"}
    /\ UNCHANGED <<run, file, fileAtStart, tok, loaded, listener, reqs, authCode, recvFrom,
                   received, urlState, shutdownCalled, timer, exchanged, exchTok,
                   saveCalls, lastSaved, savedOver>>

\* ------------------------------------------------------------- getTokenFromWeb
\* lines 50-65: codeCh, srv, the handler is registered, the listener goroutine starts
StartListener ==
    /\ pc = "web"
    /\ pc' = "url"
    /\ listener' = "starting"
    /\ UNCHANGED <<run, file, fileAtStart, tok, loaded, reqs, authCode, recvFrom, received,
                   urlState, shutdownCalled, timer, exchanged, exchTok, saveCalls,
                   lastSaved, savedOver, log>>

\* lines 69-70: the authorization URL is built with the state and printed
PrintAuthURL ==
    /\ pc = "url"
    /\ urlState' = StateToken
    /\ pc' = "await"
    /\ UNCHANGED <<run, file, fileAtStart, tok, loaded, listener, reqs, authCode, recvFrom,
                   received, shutdownCalled, timer, exchanged, exchTok, saveCalls,
                   lastSaved, savedOver, log>>

\* a listener goroutine that logs the bind error without ending the process
ListenAndServeErrorLogged ==
    /\ Alive
    /\ listener = "starting"
    /\ \E bound \in BOOLEAN :
         IF bound THEN listener' = "listening" /\ log' = log
         ELSE listener' = "failed" /\ log' = log \cup {"ListenAndServe()"}
    /\ UNCHANGED <<run, pc, file, fileAtStart, tok, loaded, reqs, authCode, recvFrom,
                   received, urlState, shutdownCalled, timer, exchanged, exchTok,
                   saveCalls, lastSaved, savedOver>>

\* lines 61-65, the listener goroutine: ListenAndServe binds :8066 and serves, or
\* returns an error that is not ErrServerClosed, which is log.Fatalf
ListenAndServe ==
    /\ Alive
    /\ listener = "starting"
    /\ \E bound \in BOOLEAN :
         IF bound THEN listener' = "listening" /\ pc' = pc /\ log' = log
         ELSE listener' = "failed" /\ pc' = "fatal" /\ log' = log \cup {"ListenAndServe()"}
    /\ UNCHANGED <<run, file, fileAtStart, tok, loaded, reqs, authCode, recvFrom, received,
                   urlState, shutdownCalled, timer, exchanged, exchTok, saveCalls,
                   lastSaved, savedOver>>

\* lines 61-65: after Shutdown, ListenAndServe returns ErrServerClosed and the
\* goroutine ends
ServeReturns ==
    /\ Alive
    /\ listener = "closed"
    /\ listener' = "exited"
    /\ UNCHANGED <<run, pc, file, fileAtStart, tok, loaded, reqs, authCode, recvFrom,
                   received, urlState, shutdownCalled, timer, exchanged, exchTok,
                   saveCalls, lastSaved, savedOver, log>>

\* line 57: the page the handler writes
SuccessPage == "Received authentication code. You can close this page now."

\* a handler that answers a request without a code with an error page and returns
HandlerValidatesCode(code, state) ==
    /\ Alive
    /\ listener = "listening"
    /\ Len(reqs) < MaxReqs
    /\ reqs' = Append(reqs, [code |-> code, state |-> state,
                             page |-> IF code = "" THEN "Missing code" ELSE SuccessPage,
                             late |-> received > 0,
                             h |-> IF code = "" THEN "rejected" ELSE "send"])
    /\ UNCHANGED <<run, pc, file, fileAtStart, tok, loaded, listener, authCode, recvFrom,
                   received, urlState, shutdownCalled, timer, exchanged, exchTok,
                   saveCalls, lastSaved, savedOver, log>>

\* a handler sending on a channel with a buffer of one: a send after the main
\* flow's receive completes at once
HandlerBuffered(code, state) ==
    /\ Alive
    /\ listener = "listening"
    /\ Len(reqs) < MaxReqs
    /\ reqs' = Append(reqs, [code |-> code, state |-> state, page |-> SuccessPage,
                             late |-> received > 0,
                             h |-> IF received > 0 THEN "done" ELSE "send"])
    /\ UNCHANGED <<run, pc, file, fileAtStart, tok, loaded, listener, authCode, recvFrom,
                   received, urlState, shutdownCalled, timer, exchanged, exchTok,
                   saveCalls, lastSaved, savedOver, log>>

\* lines 55-58, the callback handler up to its send: the code is read from the
\* query, the page is written, and the handler blocks in codeCh <- code
Handler(code, state) ==
    /\ Alive
    /\ listener = "listening"
    /\ Len(reqs) < MaxReqs
    /\ reqs' = Append(reqs, [code |-> code, state |-> state, page |-> SuccessPage,
                             late |-> received > 0, h |-> "send"])
    /\ UNCHANGED <<run, pc, file, fileAtStart, tok, loaded, listener, authCode, recvFrom,
                   received, urlState, shutdownCalled, timer, exchanged, exchTok,
                   saveCalls, lastSaved, savedOver, log>>

\* a main flow that keeps receiving from codeCh
ReceiveCodeLoop ==
    /\ pc = "await"
    /\ \E i \in 1..Len(reqs) :
         /\ reqs[i].h = "send"
         /\ reqs' = [reqs EXCEPT ![i].h = "sent"]
         /\ authCode' = reqs[i].code
         /\ recvFrom' = i
    /\ received' = received + 1
    /\ pc' = "await"
    /\ UNCHANGED <<run, file, fileAtStart, tok, loaded, listener, urlState, shutdownCalled,
                   timer, exchanged, exchTok, saveCalls, lastSaved, savedOver, log>>

\* line 73 with line 58: authCode := <-codeCh meets one handler's send on the
\* unbuffered channel
ReceiveCode ==
    /\ pc = "await"
    /\ \E i \in 1..Len(reqs) :
         /\ reqs[i].h = "send"
         /\ reqs' = [reqs EXCEPT ![i].h = "sent"]
         /\ authCode' = reqs[i].code
         /\ recvFrom' = i
    /\ received' = received + 1
    /\ pc' = "shutdown"
    /\ UNCHANGED <<run, file, fileAtStart, tok, loaded, listener, urlState, shutdownCalled,
                   timer, exchanged, exchTok, saveCalls, lastSaved, savedOver, log>>

\* line 59: the handler whose send completed returns; its connection becomes idle
HandlerReturns ==
    /\ Alive
    /\ \E i \in 1..Len(reqs) :
         /\ reqs[i].h = "sent"
         /\ reqs' = [reqs EXCEPT ![i].h = "done"]
    /\ UNCHANGED <<run, pc, file, fileAtStart, tok, loaded, listener, authCode, recvFrom,
                   received, urlState, shutdownCalled, timer, exchanged, exchTok,
                   saveCalls, lastSaved, savedOver, log>>

\* a main flow that goes on to the exchange without srv.Shutdown
ShutdownSkipped ==
    /\ pc = "shutdown"
    /\ pc' = "exchange"
    /\ UNCHANGED <<run, file, fileAtStart, tok, loaded, listener, reqs, authCode, recvFrom,
                   received, urlState, shutdownCalled, timer, exchanged, exchTok,
                   saveCalls, lastSaved, savedOver, log>>

\* lines 77-80: srv.Shutdown(ctx) is called with the one-second context; it closes
\* the listening socket at once and then waits for the connections to become idle
Shutdown ==
    /\ pc = "shutdown"
    /\ shutdownCalled' = TRUE
    /\ listener' = "closed"
    /\ timer' = 0
    /\ pc' = "shutdown_wait"
    /\ UNCHANGED <<run, file, fileAtStart, tok, loaded, reqs, authCode, recvFrom, received,
                   urlState, exchanged, exchTok, saveCalls, lastSaved, savedOver, log>>

\* line 77: the context of Shutdown is done once the deadline has passed
CtxDone(t) == t >= ShutdownDeadline

\* time passes while Shutdown waits
Tick ==
    /\ pc = "shutdown_wait"
    /\ ~CtxDone(timer)
    /\ timer' = timer + 1
    /\ UNCHANGED <<run, pc, file, fileAtStart, tok, loaded, listener, reqs, authCode,
                   recvFrom, received, urlState, shutdownCalled, exchanged, exchTok,
                   saveCalls, lastSaved, savedOver, log>>

\* a Shutdown called with a context that has no deadline
ShutdownNoDeadline ==
    /\ pc = "shutdown_wait"
    /\ \A i \in 1..Len(reqs) : reqs[i].h = "done"
    /\ log' = log
    /\ pc' = "exchange"
    /\ UNCHANGED <<run, file, fileAtStart, tok, loaded, listener, reqs, authCode, recvFrom,
                   received, urlState, shutdownCalled, timer, exchanged, exchTok,
                   saveCalls, lastSaved, savedOver>>

\* a main flow for which the error of Shutdown is fatal
ShutdownErrorFatal ==
    /\ pc = "shutdown_wait"
    /\ \/ /\ \A i \in 1..Len(reqs) : reqs[i].h = "done"
          /\ log' = log
          /\ pc' = "exchange"
       \/ /\ CtxDone(timer)
          /\ log' = log \cup {"HTTP server Shutdown"}
          /\ pc' = "fatal"
    /\ UNCHANGED <<run, file, fileAtStart, tok, loaded, listener, reqs, authCode, recvFrom,
                   received, urlState, shutdownCalled, timer, exchanged, exchTok,
                   saveCalls, lastSaved, savedOver>>

\* lines 80-82: Shutdown returns nil once no handler is running, or the context's
\* error at the deadline, which is logged; either way the flow goes on
ShutdownReturns ==
    /\ pc = "shutdown_wait"
    /\ \/ /\ \A i \in 1..Len(reqs) : reqs[i].h = "done"
          /\ log' = log
       \/ /\ CtxDone(timer)
          /\ log' = log \cup {"HTTP server Shutdown"}
    /\ pc' = "exchange"
    /\ UNCHANGED <<run, file, fileAtStart, tok, loaded, listener, reqs, authCode, recvFrom,
                   received, urlState, shutdownCalled, timer, exchanged, exchTok,
                   saveCalls, lastSaved, savedOver>>

\* an exchange whose error is logged without ending the process
ExchangeErrorLogged ==
    /\ pc = "exchange"
    /\ exchanged' = Append(exchanged, authCode)
    /\ \/ \E t \in ExchangeTokens : exchTok' = t /\ log' = log
       \/ exchTok' = NilToken /\ log' = log \cup {"Unable to retrieve token from web"}
    /\ pc' = "save"
    /\ UNCHANGED <<run, file, fileAtStart, tok, loaded, listener, reqs, authCode, recvFrom,
                   received, urlState, shutdownCalled, timer, saveCalls, lastSaved,
                   savedOver>>

\* lines 84-88: config.Exchange with authCode; its error is fatal
Exchange ==
    /\ pc = "exchange"
    /\ exchanged' = Append(exchanged, authCode)
    /\ \/ /\ \E t \in ExchangeTokens : exchTok' = t
          /\ pc' = "save"
          /\ log' = log
       \/ /\ exchTok' = NilToken
          /\ pc' = "fatal"
          /\ log' = log \cup {"Unable to retrieve token from web"}
    /\ UNCHANGED <<run, file, fileAtStart, tok, loaded, listener, reqs, authCode, recvFrom,
                   received, urlState, shutdownCalled, timer, saveCalls, lastSaved,
                   savedOver>>

\* a save whose error is dropped
SaveErrorIgnored ==
    /\ pc = "save"
    /\ saveCalls' = saveCalls + 1
    /\ \E outcome \in SaveOutcomes :
         LET r == SaveToken(file, exchTok, outcome) IN
           /\ file' = r.file
           /\ savedOver' = IF r.err THEN savedOver ELSE file
           /\ lastSaved' = IF ~r.err THEN exchTok
                           ELSE IF r.file = file THEN lastSaved ELSE NilToken
    /\ tok' = exchTok
    /\ pc' = "client"
    /\ UNCHANGED <<run, fileAtStart, loaded, listener, reqs, authCode, recvFrom, received,
                   urlState, shutdownCalled, timer, exchanged, exchTok, log>>

\* lines 90-95 with getClient line 35: saveToken(tokenPath, tok); its error is
\* fatal; else the token is returned to getClient
Save ==
    /\ pc = "save"
    /\ saveCalls' = saveCalls + 1
    /\ \E outcome \in SaveOutcomes :
         LET r == SaveToken(file, exchTok, outcome) IN
           /\ file' = r.file
           /\ savedOver' = IF r.err THEN savedOver ELSE file
           /\ IF r.err
              THEN /\ pc' = "fatal"
                   /\ tok' = tok
                   /\ log' = log \cup {"Unable to save token"}
                   /\ lastSaved' = IF r.file = file THEN lastSaved ELSE NilToken
              ELSE /\ pc' = "client"
                   /\ tok' = exchTok
                   /\ log' = log
                   /\ lastSaved' = exchTok
    /\ UNCHANGED <<run, fileAtStart, loaded, listener, reqs, authCode, recvFrom, received,
                   urlState, shutdownCalled, timer, exchanged, exchTok>>

\* ------------------------------------------------------------- main
\* main, lines 133-158: the program is run again; the token file is what the last
\* run left
Rerun ==
    /\ pc \in {"authorized", "fatal"}
    /\ run < MaxRuns
    /\ run' = run + 1
    /\ fileAtStart' = file
    /\ pc' = "load"
    /\ tok' = NilToken
    /\ loaded' = "none"
    /\ listener' = "none"
    /\ reqs' = <<>>
    /\ authCode' = ""
    /\ recvFrom' = 0
    /\ received' = 0
    /\ urlState' = ""
    /\ shutdownCalled' = FALSE
    /\ timer' = 0
    /\ exchanged' = <<>>
    /\ exchTok' = NilToken
    /\ saveCalls' = 0
    /\ log' = {}
    /\ UNCHANGED <<file, lastSaved, savedOver>>

\* the steps of one run of the program
RunNext ==
    \/ GetClientLoad
    \/ GetClientService
    \/ StartListener
    \/ PrintAuthURL
    \/ ListenAndServe
    \/ ServeReturns
    \/ \E code \in Codes, state \in States : Handler(code, state)
    \/ ReceiveCode
    \/ HandlerReturns
    \/ Shutdown
    \/ Tick
    \/ ShutdownReturns
    \/ Exchange
    \/ Save

Next ==
    \/ RunNext
    \/ Rerun

Spec == Init /\ [][Next]_vars

\* The main flow is one goroutine that runs whenever it can, the handlers return
\* once their send is through, and time passes while Shutdown waits.
Fairness ==
    /\ WF_vars(ReceiveCode)
    /\ WF_vars(HandlerReturns)
    /\ WF_vars(Shutdown)
    /\ WF_vars(Tick)
    /\ WF_vars(ShutdownReturns)
    /\ WF_vars(Exchange)
    /\ WF_vars(Save)
    /\ WF_vars(GetClientService)

\* one run of the program, from any token file, under that scheduling
FairSpec == Init /\ [][RunNext]_vars /\ Fairness

\* ------------------------------------------------------------- properties
\* the persisted fields of two tokens agree (expiry as an instant)
PersistedEq(a, b) ==
    /\ a.AccessToken = b.AccessToken
    /\ a.TokenType = b.TokenType
    /\ a.RefreshToken = b.RefreshToken
    /\ a.Expiry.wall = b.Expiry.wall

\* tokenFromFile can decode a token from this file
Loadable(f) == f.exists /\ f.items # <<>> /\ Head(f.items).kind = "json"

\* the handlers whose send on codeCh has completed
Delivered == {i \in 1..Len(reqs) : reqs[i].h \in {"sent", "done"}}

\* C1: every code the main flow received came from a callback request whose state
\* parameter equals the state of this flow; a request with another state never
\* completes a send on the hand-off channel.
C1_MismatchNeverDelivers ==
    /\ \A i \in Delivered : reqs[i].state = StateToken
    /\ (recvFrom # 0 => reqs[recvFrom].state = StateToken)

\* C2: whatever callbacks arrive, the main flow takes at most one code from the
\* hand-off channel and the exchange is attempted at most once.
C2_SingleDelivery ==
    /\ received <= 1
    /\ Cardinality(Delivered) <= 1
    /\ Len(exchanged) <= 1

\* C2 witness: two callbacks with the matching state arrived, one was received and
\* exchanged, the other handler is still blocked in its send
C2_Witness ==
    /\ Len(reqs) >= 2
    /\ reqs[1].state = StateToken /\ reqs[2].state = StateToken
    /\ received = 1
    /\ Len(exchanged) = 1
    /\ pc = "authorized"
    /\ \E i \in 1..Len(reqs) : reqs[i].h = "send"

\* C3: a token loaded by tokenFromFile with no write since the last successful
\* saveToken equals the saved token in access_token, refresh_token, token_type and
\* expiry.
C3_RoundTrip ==
    (loaded = "ok" /\ lastSaved # NilToken) => PersistedEq(tok, lastSaved)

\* C3 witness: a token with an empty refresh_token was saved over a file that held
\* a different token, and a later run loaded it (without the unexported raw field)
C3_Witness ==
    /\ loaded = "ok"
    /\ lastSaved # NilToken
    /\ lastSaved.RefreshToken = ""
    /\ Loadable(savedOver)
    /\ ~PersistedEq(Decode(Head(savedOver.items).obj), lastSaved)
    /\ tok # lastSaved

\* C4: when the loaded token has an empty refresh_token, the flow reaches Authorized
\* without the web handshake and a warning about the missing refresh token has
\* been logged.
C4_NoRefreshTokenWarning ==
    (pc = "authorized" /\ loaded = "ok" /\ tok.RefreshToken = "")
        => ("No refresh token found" \in log /\ listener = "none")

\* C5: a token file that is absent or does not decode sends the flow into the web
\* handshake; the process is not terminated by the failed load.
C5_LoadFailureRecovered ==
    (pc # "load" /\ ~Loadable(fileAtStart))
        => (loaded = "openerr" /\ "Unable to decode token" \notin log)

\* C6: once the exchange has been started, srv.Shutdown has been called, the
\* listening socket is closed, and Shutdown took no longer than its deadline;
\* while Shutdown waits the deadline has not been passed.
C6_ShutdownBeforeExchange ==
    /\ (pc \in {"exchange", "save"} \/ exchanged # <<>>)
          => (shutdownCalled /\ listener \in {"closed", "exited"}
              /\ timer <= ShutdownDeadline)
    /\ (pc = "shutdown_wait"
          => (listener \in {"closed", "exited"} /\ timer <= ShutdownDeadline))

\* C6 witness: the exchange is about to start after Shutdown ran into its deadline
\* with a handler still blocked
C6_Witness ==
    /\ pc = "exchange"
    /\ timer = ShutdownDeadline
    /\ "HTTP server Shutdown" \in log
    /\ \E i \in 1..Len(reqs) : reqs[i].h = "send"

\* C7: the code passed to the exchange is the code parameter of the request whose
\* hand-off the main flow received, and that request carried the matching state.
C7_ExchangedCodeIsMatchingCallback ==
    exchanged # <<>>
        => /\ recvFrom # 0
           /\ exchanged[1] = reqs[recvFrom].code
           /\ reqs[recvFrom].state = StateToken

\* the positions of the main flow inside getTokenFromWeb
WebPcs == {"web", "url", "await", "shutdown", "shutdown_wait", "exchange", "save"}

\* C8: after a successful load there is no listener, no authorization URL, no
\* callback, no exchange and no save; the web handshake runs only after a failed
\* load.
C8_LoadSkipsWeb ==
    /\ loaded = "ok"
          => /\ pc \in {"client", "authorized", "fatal"}
             /\ listener = "none" /\ urlState = "" /\ reqs = <<>>
             /\ received = 0 /\ exchanged = <<>> /\ saveCalls = 0
    /\ (pc \in WebPcs \/ listener # "none" \/ urlState # "" \/ exchanged # <<>>)
          => loaded = "openerr"

\* C8 witness: Authorized reached straight from a successful load
C8_Witness == loaded = "ok" /\ pc = "authorized" /\ tok # NilToken

\* C9: on the web path the token is handed to getClient only after saveToken
\* returned nil, and the file then holds exactly the exchanged token; a failed
\* save ends the process.
C9_AuthorizedOnlyAfterSave ==
    /\ (pc \in {"client", "authorized"} /\ loaded = "openerr")
          => /\ saveCalls = 1
             /\ exchTok \in ExchangeTokens
             /\ lastSaved = exchTok
             /\ tok = exchTok
             /\ file = FileOf(<<Json(Encode(exchTok))>>)
    /\ "Unable to save token" \in log => pc = "fatal"

\* C9 witness: Authorized reached through the web handshake over an existing file
C9_Witness ==
    /\ pc = "authorized"
    /\ loaded = "openerr"
    /\ fileAtStart.exists
    /\ file # fileAtStart

\* C10: a failed exchange ends the process: no token, no saveToken, no second
\* exchange, the token file untouched.
C10_ExchangeFailureFatal ==
    "Unable to retrieve token from web" \in log
        => /\ pc = "fatal"
           /\ exchTok = NilToken
           /\ saveCalls = 0
           /\ Len(exchanged) = 1
           /\ file = fileAtStart

\* C10 witness: the exchange of a received code failed
C10_Witness ==
    /\ "Unable to retrieve token from web" \in log
    /\ received = 1
    /\ exchanged = <<authCode>>

\* C11: a bind failure of the listener ends the whole process wherever the main
\* flow is: no code is received, nothing is exchanged and Authorized is not reached;
\* the return of ListenAndServe after Shutdown does not end the process.
C11_BindFailureFatal ==
    /\ listener = "failed"
          => /\ pc = "fatal"
             /\ "ListenAndServe()" \in log
             /\ reqs = <<>> /\ received = 0 /\ exchanged = <<>> /\ saveCalls = 0
    /\ listener \in {"closed", "exited"} => "ListenAndServe()" \notin log
    /\ (listener = "exited" /\ pc = "fatal") => log \cap {"Unable to retrieve token from web",
              "Unable to save token", "Unable to retrieve Calendar client"} # {}

\* C11 witness: the bind failed after the authorization URL was printed, with the
\* main flow blocked on the hand-off
C11_Witness ==
    /\ listener = "failed"
    /\ urlState = StateToken
    /\ pc = "fatal"

\* the fatal messages of the steps after Shutdown
LaterFatal == {"Unable to retrieve token from web", "Unable to save token",
               "Unable to retrieve Calendar client"}

\* C12: whether Shutdown returned nil or an error, the main flow goes on to the
\* exchange with the code it received; a Shutdown error is logged and never ends
\* the process.
C12_ShutdownOutcomeIgnored ==
    /\ "HTTP server Shutdown" \in log
          => /\ pc \in {"exchange", "save", "client", "authorized", "fatal"}
             /\ (pc = "fatal" => log \cap LaterFatal # {})
    /\ pc = "exchange"
          => (recvFrom # 0 /\ authCode = reqs[recvFrom].code /\ exchanged = <<>>)
    /\ (shutdownCalled /\ pc \notin {"shutdown_wait", "exchange"})
          => exchanged = <<authCode>>

\* C12 witness: Shutdown hit its deadline because a handler was still blocked, and
\* the received code was exchanged all the same
C12_Witness ==
    /\ "HTTP server Shutdown" \in log
    /\ pc = "save"
    /\ exchanged = <<authCode>>
    /\ \E i \in 1..Len(reqs) : reqs[i].h = "send"

\* C13: as long as no callback with the matching state has arrived, the main flow
\* stays blocked on the hand-off with the listener up: nothing is received or
\* exchanged and the process does not end.
C13_BlockedWithoutMatchingCallback ==
    (urlState # "" /\ listener # "failed"
       /\ \A i \in 1..Len(reqs) : reqs[i].state # StateToken)
        => /\ pc = "await"
           /\ listener \in {"starting", "listening"}
           /\ received = 0
           /\ exchanged = <<>>

\* the web flow ended in a fatal error of the exchange, the save or the client
LaterFailure == pc = "fatal" /\ log \cap LaterFatal # {}

\* the main flow waits on the hand-off and a handler of a request with the
\* matching state is in its send
MatchingCallbackWaiting ==
    /\ pc = "await"
    /\ \E i \in 1..Len(reqs) : reqs[i].state = StateToken /\ reqs[i].h = "send"

\* Authorized through the web flow, listener shut down, token saved
AuthorizedAndSaved ==
    /\ pc = "authorized"
    /\ shutdownCalled /\ listener \in {"closed", "exited"}
    /\ lastSaved = exchTok /\ file = FileOf(<<Json(Encode(exchTok))>>)

\* C14: once a callback with the matching state has arrived while the main flow
\* waits, the flow eventually is Authorized with the listener shut down and the
\* token saved, unless the exchange, the save or the client construction failed.
C14_MatchingCallbackLeadsToAuthorized ==
    MatchingCallbackWaiting ~> (AuthorizedAndSaved \/ LaterFailure)

\* C14 witness: Authorized and saved after a mismatched callback followed by a
\* matching one
C14_Witness ==
    /\ AuthorizedAndSaved
    /\ Len(reqs) = 2
    /\ reqs[1].state = "WRONG" /\ reqs[2].state = StateToken
    /\ recvFrom = 2

C16_CodeNotValidated ==
    /\ \A i \in 1..Len(reqs) :
          /\ reqs[i].h \in {"send", "sent", "done"}
          /\ reqs[i].page = SuccessPage
    /\ (pc = "await" /\ reqs # <<>>) => \E i \in 1..Len(reqs) : reqs[i].h = "send"
    /\ recvFrom # 0 => authCode = reqs[recvFrom].code
    /\ exchanged # <<>> => (exchanged = <<reqs[recvFrom].code>> /\ shutdownCalled)

\* C16 witness: the exchange was attempted with the empty code of a request with
\* the matching state, and the listener was shut down
C16_Witness ==
    /\ exchanged = <<"">>
    /\ recvFrom # 0
    /\ reqs[recvFrom].code = "" /\ reqs[recvFrom].state = StateToken
    /\ shutdownCalled /\ listener \in {"closed", "exited"}

\* a handler is in its send only after writing the success page, and once the main
\* flow has received, every other handler is blocked in its send
BlockedHandlers ==
    /\ \A i \in 1..Len(reqs) : reqs[i].h = "send" => reqs[i].page = SuccessPage
    /\ \A i \in 1..Len(reqs) : (received > 0 /\ i # recvFrom) => reqs[i].h = "send"
    /\ \A i \in 1..Len(reqs) : reqs[i].late => reqs[i].h = "send"
    /\ pc = "shutdown_wait" => timer <= ShutdownDeadline

\* C17: a handler writes its page and blocks in its send until the main flow
\* receives; a handler that reaches the send after the one receive stays blocked
\* for good, and still the main flow gets from Shutdown to the exchange, within the
\* deadline of Shutdown.
C17_LateHandlerBlockedFlowProceeds ==
    /\ []BlockedHandlers
    /\ (pc = "shutdown_wait") ~> (pc = "exchange")

\* C17 witness: a request arrived after the main flow's receive, its handler is
\* blocked, Shutdown ran into its deadline and the main flow is at the exchange
C17_Witness ==
    /\ pc = "exchange"
    /\ timer = ShutdownDeadline
    /\ \E i \in 1..Len(reqs) : reqs[i].late /\ reqs[i].h = "send"

====
